---- MODULE Spec2Model ----
(***************************************************************************)
(* Model of the paper search / PDF download core:                          *)
(*   src/src/paper_search.py   ArxivSearcher, SemanticScholarSearcher,     *)
(*                             MultiSourceSearcher                         *)
(*   src/src/pdf_downloader.py PDFDownloader                               *)
(* Strings are sequences of one-character strings.  Specifications:        *)
(*   SpecSearch    one MultiSourceSearcher.search_papers call              *)
(*   SpecDownload  one PDFDownloader.download_papers call, with the        *)
(*                 network and the file system as nondeterministic         *)
(*                 environment                                             *)
(*   SpecStats     one PDFDownloader.get_download_stats call on a          *)
(*                 directory other processes may change                    *)
(*   SpecRace      two PDFDownloader.download_paper calls running at the   *)
(*                 same time on one file name                              *)
(*   SpecApp       src/app.py: script runs, button presses and the worker  *)
(*                 threads they start                                      *)
(***************************************************************************)
EXTENDS Integers, Sequences, FiniteSets, TLC

VARIABLES
    \* ---- search ----
    s_pc,          \* position of MultiSourceSearcher.search_papers
    max_papers,    \* MultiSourceSearcher.max_papers
    min_year,      \* MultiSourceSearcher.min_year
    todo,          \* entries of the current provider response still to iterate
    papers,        \* `papers` of the provider call in progress
    all_papers,    \* `all_papers` accumulator
    unique_papers, \* value returned by _remove_duplicates (before the sort)
    s_result,      \* value returned by MultiSourceSearcher.search_papers
    invoked,       \* provider search_papers calls made so far, in order
    skipped,       \* entries of the current call dropped by the per-item except
    \* ---- download ----
    d_pc,          \* position of PDFDownloader.download_papers / download_paper
    batch,         \* `papers` argument of download_papers
    has_cb,        \* a progress_callback was supplied
    cur,           \* i + 1 of the loop iteration in progress (0 before the first)
    results,       \* `results` of download_papers
    fs,            \* the download directory: file name -> size of each file in it
    ret,           \* triple returned by the download_paper call in progress
    events,        \* what download_papers has done so far, in order
    target,        \* `filename` of the download_paper call in progress
    pre,           \* size of the target file when the call started, -1 if absent
    gets,          \* number of session.get calls issued by the call in progress
    resp1,         \* first response received by the call in progress
    streamed,      \* size of the body the call streamed to disk in full, -1 if none
    unlink_raised, \* file_path.unlink() raised in the call in progress
    exc,           \* kind of the exception raised inside the call in progress
    \* ---- get_download_stats ----
    st_pc,         \* position of PDFDownloader.get_download_stats
    dir_exists,    \* the download directory exists
    pdf_files,     \* `pdf_files`: what glob('*.pdf') listed
    stats,         \* value returned by get_download_stats
    \* ---- two concurrent download_paper calls on one file name ----
    rc_pc,         \* position of each of the two calls
    rc_paper,      \* `paper` argument of each call
    rc_fs,         \* the shared download directory: file name -> size
    rc_h,          \* each call's file object: open, still linked to the path,
                   \* write offset, chunks of its response still to write
    rc_ret,        \* triple each call returned
    rc_order,      \* the calls in the order in which they returned
    rc_opened,     \* the calls that opened the target path for writing
    \* ---- app.py ----
    processing,    \* st.session_state.processing
    workers,       \* position of each worker thread the app has started
    rendered,      \* `disabled` of the search / Download All buttons on the
                   \* page the user sees (st.session_state.processing when the
                   \* script last ran)
    has_results    \* st.session_state.search_results is non-empty

searchVars == <<s_pc, max_papers, min_year, todo, papers, all_papers,
                unique_papers, s_result, invoked, skipped>>

dlVars == <<d_pc, batch, has_cb, cur, results, fs, ret, events, target, pre, gets,
            resp1, streamed, unlink_raised, exc>>

stVars == <<st_pc, dir_exists, pdf_files, stats>>

rcVars == <<rc_pc, rc_paper, rc_fs, rc_h, rc_ret, rc_order, rc_opened>>

appVars == <<processing, workers, rendered, has_results>>

vars == <<searchVars, dlVars, stVars, rcVars, appVars>>

None == "None"

\* an absent (None) string; present strings are sequences of characters
NoneStr == <<None>>

\* ------------------------------------------------------------------------
\* Bounds of the model
\* ------------------------------------------------------------------------
MaxPapers == 4      \* max_papers ranges over 0..MaxPapers
MaxEntries == 2     \* a provider response holds at most this many entries
MaxBatch == 2       \* download_papers is called with at most this many papers

\* ------------------------------------------------------------------------
\* Characters and text helpers (Python str / re semantics on the alphabet)
\* ------------------------------------------------------------------------
IsSpace(c) == c \in {" ", "\t", "\n"}

IsWord(c) == c \in {"a", "b", "A", "B", "_", "0", "1", "2", "5", "9"}

IsDigit(c) == c \in {"0", "1", "2", "5", "9"}

DigitVal(c) ==
    CASE c = "0" -> 0 [] c = "1" -> 1 [] c = "2" -> 2 [] c = "5" -> 5
      [] c = "9" -> 9 [] OTHER -> 0

Lower(c) == CASE c = "A" -> "a" [] c = "B" -> "b" [] OTHER -> c

RECURSIVE LStrip(_)
LStrip(s) == IF s # <<>> /\ IsSpace(Head(s)) THEN LStrip(Tail(s)) ELSE s

RECURSIVE RStrip(_)
RStrip(s) ==
    IF s # <<>> /\ IsSpace(s[Len(s)]) THEN RStrip(SubSeq(s, 1, Len(s) - 1)) ELSE s

Strip(s) == RStrip(LStrip(s))

\* re.sub(r'\s+', ' ', s): every maximal run of whitespace becomes one space
RECURSIVE CollapseWs(_)
CollapseWs(s) ==
    IF s = <<>> THEN <<>>
    ELSE IF IsSpace(Head(s))
         THEN <<" ">> \o CollapseWs(LStrip(Tail(s)))
         ELSE <<Head(s)>> \o CollapseWs(Tail(s))

\* characters re.sub(r'[^\w\s\-\.\,\(\)\[\]]', '', text) leaves in place
CleanKeeps(c) == IsWord(c) \/ IsSpace(c) \/ c \in {"-", ".", ",", "(", ")", "[", "]"}

\* PaperSearcher._clean_text; None and "" both give ""
_clean_text(text) ==
    IF text = NoneStr \/ text = <<>> THEN <<>>
    ELSE SelectSeq(CollapseWs(Strip(text)), CleanKeeps)

\* ------------------------------------------------------------------------
\* Provider responses (inputs): small hand-picked sets
\* ------------------------------------------------------------------------
DefaultYear == 2024

MinYears == {2020, 2025}

\* raw titles: "", "!", "a", "A-", " b\n a", "! !"
RawTitles ==
    { <<>>, <<"!">>, <<"a">>, <<"A", "-">>, <<" ", "b", "\n", " ", "a">>,
      <<"!", " ", "!">> }

\* text of <published>: "2019-", "2025-", "20a5" (int() raises), "" (int() raises)
PublishedTexts ==
    { <<"2", "0", "1", "9", "-">>, <<"2", "0", "2", "5", "-">>,
      <<"2", "0", "a", "5">>, <<>> }

\* an <entry> of the ArXiv feed
\*   title, published: the element's text, NoneStr when the element is missing
\*   link: "pdf" a <link type="application/pdf" href=...>, "pdf_nohref" such a
\*         link without (or with empty) href, "none" no such link
\*   id: the entry has an <id>;  bad: parsing the entry raises
ArxivEntries ==
    [ title : RawTitles \cup {NoneStr},
      published : PublishedTexts \cup {NoneStr},
      link : {"pdf", "pdf_nohref", "none"},
      id : BOOLEAN,
      bad : BOOLEAN ]

\* the "year" member of a Semantic Scholar item: missing, null, a string, an int
S2Years ==
    { [kind |-> "missing", val |-> 0], [kind |-> "null", val |-> 0],
      [kind |-> "str", val |-> 2025], [kind |-> "int", val |-> 2019],
      [kind |-> "int", val |-> 2025] }

\* an item of the Semantic Scholar "data" array
\*   title: NoneStr when missing or null;  authors: "null" makes the loop over
\*   the authors raise;  oa: openAccessPdf is missing/null ("none"), has no
\*   url ("nourl") or has one ("url")
S2Items ==
    [ title : RawTitles \cup {NoneStr},
      year : S2Years,
      authors : {"ok", "null"},
      oa : {"none", "nourl", "url"} ]

Paper(t, y, u, src) == [title |-> t, year |-> y, pdf_url |-> u, source |-> src]

\* outcome of one pass through a provider's loop body
Kept(p) == [out |-> "kept", paper |-> <<p>>]
Dropped == [out |-> "dropped", paper |-> <<>>]
Raised == [out |-> "raised", paper |-> <<>>]

\* int(s) for the strings of the model: fails on "" and on a non-digit
RECURSIVE DigitsVal(_)
DigitsVal(s) ==
    IF s = <<>> THEN 0 ELSE 10 * DigitsVal(SubSeq(s, 1, Len(s) - 1)) + DigitVal(s[Len(s)])

IntParses(s) == s # <<>> /\ \A i \in DOMAIN s : IsDigit(s[i])

Take(s, n) == SubSeq(s, 1, IF n < Len(s) THEN n ELSE Len(s))

\* year of an ArXiv entry: int(published.text[:4]), 2024 when the element is
\* missing or int() raises
ArxivYear(e) ==
    IF e.published = NoneStr THEN DefaultYear
    ELSE IF IntParses(Take(e.published, 4)) THEN DigitsVal(Take(e.published, 4))
         ELSE DefaultYear

\* pdf_url of an ArXiv entry: href of the application/pdf link, else built
\* from <id>, else None
ArxivPdfUrl(e) ==
    IF e.link = "pdf" THEN "link_href"
    ELSE IF e.id THEN "arxiv_id_pdf" ELSE None

\* variant of the ArXiv loop body that applies the year filter only to a year
\* it parsed, so the default year escapes the filter
ArxivLoopBodyDefaultYearUnfiltered(e, minYear) ==
    IF e.bad THEN Raised
    ELSE IF e.published # NoneStr /\ IntParses(Take(e.published, 4))
            /\ ArxivYear(e) < minYear THEN Dropped
    ELSE IF _clean_text(e.title) # <<>> /\ ArxivPdfUrl(e) # None
         THEN Kept(Paper(_clean_text(e.title), ArxivYear(e), ArxivPdfUrl(e), "ArXiv"))
         ELSE Dropped

\* body of the for loop of ArxivSearcher.search_papers
ArxivLoopBody(e, minYear) ==
    IF e.bad THEN Raised
    ELSE IF ArxivYear(e) < minYear THEN Dropped
    ELSE IF _clean_text(e.title) # <<>> /\ ArxivPdfUrl(e) # None
         THEN Kept(Paper(_clean_text(e.title), ArxivYear(e), ArxivPdfUrl(e), "ArXiv"))
         ELSE Dropped

S2PdfUrl(d) == IF d.oa = "url" THEN "s2_url" ELSE None

\* body of the for loop of SemanticScholarSearcher.search_papers; the test
\* `title and pdf_url and year >= self.min_year` is evaluated left to right and
\* the comparison raises TypeError for a null or string year
S2LoopBody(d, minYear) ==
    IF d.authors = "null" THEN Raised
    ELSE IF _clean_text(d.title) = <<>> \/ S2PdfUrl(d) = None THEN Dropped
    ELSE IF d.year.kind \in {"null", "str"} THEN Raised
    ELSE LET year == IF d.year.kind = "missing" THEN DefaultYear ELSE d.year.val
         IN  IF year >= minYear
             THEN Kept(Paper(_clean_text(d.title), year, S2PdfUrl(d), "Semantic Scholar"))
             ELSE Dropped

\* ------------------------------------------------------------------------
\* MultiSourceSearcher
\* ------------------------------------------------------------------------
\* characters re.sub(r'[^\w\s]', '', title) leaves in place
SimpleKeeps(c) == IsWord(c) \/ IsSpace(c)

LowerStr(s) == [i \in DOMAIN s |-> Lower(s[i])]

\* simple_title of _remove_duplicates: lower(), strip non-word/non-space,
\* ' '.join(split())
SimpleTitle(title) == Strip(CollapseWs(SelectSeq(LowerStr(title), SimpleKeeps)))

RECURSIVE RemoveDupLoop(_, _, _)
RemoveDupLoop(ps, seen, acc) ==
    IF ps = <<>> THEN acc
    ELSE LET st == SimpleTitle(Head(ps).title)
         IN  IF st \notin seen
             THEN RemoveDupLoop(Tail(ps), seen \cup {st}, Append(acc, Head(ps)))
             ELSE RemoveDupLoop(Tail(ps), seen, acc)

\* variant of _remove_duplicates that compares titles without lower()
RECURSIVE RemoveDupLoopCaseSensitive(_, _, _)
RemoveDupLoopCaseSensitive(ps, seen, acc) ==
    IF ps = <<>> THEN acc
    ELSE LET st == Strip(CollapseWs(SelectSeq(Head(ps).title, SimpleKeeps)))
         IN  IF st \notin seen
             THEN RemoveDupLoopCaseSensitive(Tail(ps), seen \cup {st}, Append(acc, Head(ps)))
             ELSE RemoveDupLoopCaseSensitive(Tail(ps), seen, acc)

RemoveDuplicatesCaseSensitive(ps) == RemoveDupLoopCaseSensitive(ps, {}, <<>>)

_remove_duplicates(ps) == RemoveDupLoop(ps, {}, <<>>)

\* list.sort(key=year, reverse=True): stable, equal years keep their order
InsertByYearDesc(s, p) ==
    LET k == Cardinality({i \in DOMAIN s : s[i].year >= p.year})
    IN  SubSeq(s, 1, k) \o <<p>> \o SubSeq(s, k + 1, Len(s))

\* variant of the sort without reverse=True (ascending)
InsertByYearAsc(s, p) ==
    LET k == Cardinality({i \in DOMAIN s : s[i].year <= p.year})
    IN  SubSeq(s, 1, k) \o <<p>> \o SubSeq(s, k + 1, Len(s))

RECURSIVE SortByYearAsc(_)
SortByYearAsc(s) ==
    IF s = <<>> THEN <<>>
    ELSE InsertByYearAsc(SortByYearAsc(SubSeq(s, 1, Len(s) - 1)), s[Len(s)])

RECURSIVE SortByYearDescLoop(_)
SortByYearDescLoop(s) ==
    IF s = <<>> THEN <<>>
    ELSE InsertByYearDesc(SortByYearDescLoop(SubSeq(s, 1, Len(s) - 1)), s[Len(s)])

SortByYearDesc(s) == SortByYearDescLoop(s)

\* variant that rounds the provider's share up
ProviderCapRoundedUp(maxPapers) == (maxPapers + 1) \div 2

\* max_papers // 2 handed to each provider client
ProviderCap(maxPapers) == maxPapers \div 2

\* one searcher.search_papers(query) call of the loop over self.searchers:
\* the provider, and whether its request or the parse of the answer raised
Call(provider, failed) == [provider |-> provider, failed |-> failed]

SearchInit ==
    /\ s_pc = "arxiv"
    /\ max_papers \in 0..MaxPapers
    /\ min_year \in MinYears
    /\ todo = 0
    /\ papers = <<>>
    /\ all_papers = <<>>
    /\ unique_papers = <<>>
    /\ s_result = <<>>
    /\ invoked = <<>>
    /\ skipped = FALSE

\* variant in which a failing ArXiv request ends the whole search
ArxivRequestFailsAborts ==
    /\ s_pc = "arxiv"
    /\ invoked' = Append(invoked, Call("ArXiv", TRUE))
    /\ papers' = <<>>
    /\ todo' = 0
    /\ s_pc' = "merge"
    /\ UNCHANGED <<max_papers, min_year, all_papers, unique_papers, s_result, skipped>>
    /\ UNCHANGED <<dlVars, stVars, rcVars, appVars>>

\* session.get / raise_for_status raises: the outer except returns []
ArxivRequestFails ==
    /\ s_pc = "arxiv"
    /\ invoked' = Append(invoked, Call("ArXiv", TRUE))
    /\ papers' = <<>>
    /\ todo' = 0
    /\ s_pc' = "arxiv_return"
    /\ UNCHANGED <<max_papers, min_year, all_papers, unique_papers, s_result, skipped>>
    /\ UNCHANGED <<dlVars, stVars, rcVars, appVars>>

\* the feed holds n entries; the loop runs over entries[:self.max_papers]
ArxivRequestOk ==
    /\ s_pc = "arxiv"
    /\ \E n \in 0..MaxEntries :
          todo' = Len(Take([i \in 1..n |-> i], ProviderCap(max_papers)))
    /\ invoked' = Append(invoked, Call("ArXiv", FALSE))
    /\ papers' = <<>>
    /\ s_pc' = "arxiv_loop"
    /\ UNCHANGED <<max_papers, min_year, all_papers, unique_papers, s_result, skipped>>
    /\ UNCHANGED <<dlVars, stVars, rcVars, appVars>>

ArxivEntry ==
    /\ s_pc = "arxiv_loop"
    /\ todo > 0
    /\ \E e \in ArxivEntries :
          LET r == ArxivLoopBody(e, min_year)
          IN  /\ papers' = papers \o r.paper
              /\ skipped' = (skipped \/ r.out = "raised")
    /\ todo' = todo - 1
    /\ UNCHANGED <<s_pc, max_papers, min_year, all_papers, unique_papers, s_result, invoked>>
    /\ UNCHANGED <<dlVars, stVars, rcVars, appVars>>

ArxivLoopEnd ==
    /\ s_pc = "arxiv_loop"
    /\ todo = 0
    /\ s_pc' = "arxiv_return"
    /\ UNCHANGED <<max_papers, min_year, todo, papers, all_papers, unique_papers,
                   s_result, invoked, skipped>>
    /\ UNCHANGED <<dlVars, stVars, rcVars, appVars>>

\* all_papers.extend(papers); time.sleep(1); next searcher
ArxivReturn ==
    /\ s_pc = "arxiv_return"
    /\ all_papers' = all_papers \o papers
    /\ papers' = <<>>
    /\ s_pc' = "s2"
    /\ UNCHANGED <<max_papers, min_year, todo, unique_papers, s_result, invoked, skipped>>
    /\ UNCHANGED <<dlVars, stVars, rcVars, appVars>>

S2RequestFails ==
    /\ s_pc = "s2"
    /\ invoked' = Append(invoked, Call("Semantic Scholar", TRUE))
    /\ papers' = <<>>
    /\ todo' = 0
    /\ s_pc' = "s2_return"
    /\ UNCHANGED <<max_papers, min_year, all_papers, unique_papers, s_result, skipped>>
    /\ UNCHANGED <<dlVars, stVars, rcVars, appVars>>

S2RequestOk ==
    /\ s_pc = "s2"
    /\ \E n \in 0..MaxEntries :
          todo' = Len(Take([i \in 1..n |-> i], ProviderCap(max_papers)))
    /\ invoked' = Append(invoked, Call("Semantic Scholar", FALSE))
    /\ papers' = <<>>
    /\ s_pc' = "s2_loop"
    /\ UNCHANGED <<max_papers, min_year, all_papers, unique_papers, s_result, skipped>>
    /\ UNCHANGED <<dlVars, stVars, rcVars, appVars>>

S2Item ==
    /\ s_pc = "s2_loop"
    /\ todo > 0
    /\ \E d \in S2Items :
          LET r == S2LoopBody(d, min_year)
          IN  /\ papers' = papers \o r.paper
              /\ skipped' = (skipped \/ r.out = "raised")
    /\ todo' = todo - 1
    /\ UNCHANGED <<s_pc, max_papers, min_year, all_papers, unique_papers, s_result, invoked>>
    /\ UNCHANGED <<dlVars, stVars, rcVars, appVars>>

S2LoopEnd ==
    /\ s_pc = "s2_loop"
    /\ todo = 0
    /\ s_pc' = "s2_return"
    /\ UNCHANGED <<max_papers, min_year, todo, papers, all_papers, unique_papers,
                   s_result, invoked, skipped>>
    /\ UNCHANGED <<dlVars, stVars, rcVars, appVars>>

S2Return ==
    /\ s_pc = "s2_return"
    /\ all_papers' = all_papers \o papers
    /\ papers' = <<>>
    /\ s_pc' = "merge"
    /\ UNCHANGED <<max_papers, min_year, todo, unique_papers, s_result, invoked, skipped>>
    /\ UNCHANGED <<dlVars, stVars, rcVars, appVars>>

\* _remove_duplicates, sort by year descending, [:self.max_papers]
MultiSearchFinish ==
    /\ s_pc = "merge"
    /\ unique_papers' = _remove_duplicates(all_papers)
    /\ s_result' = Take(SortByYearDesc(_remove_duplicates(all_papers)), max_papers)
    /\ s_pc' = "done"
    /\ UNCHANGED <<max_papers, min_year, todo, papers, all_papers, invoked, skipped>>
    /\ UNCHANGED <<dlVars, stVars, rcVars, appVars>>

SearchNext ==
    \/ ArxivRequestFails
    \/ ArxivRequestOk
    \/ ArxivEntry
    \/ ArxivLoopEnd
    \/ ArxivReturn
    \/ S2RequestFails
    \/ S2RequestOk
    \/ S2Item
    \/ S2LoopEnd
    \/ S2Return
    \/ MultiSearchFinish


\* ========================================================================
\* PDFDownloader
\* ========================================================================
MinPdfSize == 1024

MaxFilenameLen == 100

\* URLs, attribute values and file names are sequences of tokens; "pdf",
\* "PDF" and "http://" are tokens, "." and "/" single characters
U_pdf == <<"http://", "h", "/", "a", ".", "pdf">>
U_page == <<"http://", "h", "/", "v">>

\* papers handed to download_papers: [title, pdf_url]
\*   "a"  with a URL ending in .pdf;  "a:" (same file name) with a page URL;
\*   "b." without pdf_url;  "." (empty safe title) with a page URL
PaperSet ==
    { [title |-> <<"a">>, pdf_url |-> U_pdf],
      [title |-> <<"a", ":">>, pdf_url |-> U_page],
      [title |-> <<"b", ".">>, pdf_url |-> NoneStr],
      [title |-> <<".">>, pdf_url |-> U_page] }

Batches == UNION {[1..n -> PaperSet] : n \in 0..MaxBatch}

\* int(time.time()) at the moment _create_safe_filename runs
Times == {"1000", "1001"}

\* content-type header, lower-cased: does it contain 'pdf', 'text/html'
CTypes == [pdf : BOOLEAN, html : BOOLEAN]

\* HTML bodies: value of the first quoted href= / src= attribute (NoneStr when
\* there is none) and the citation_pdf_url meta tag ("none", "empty" content,
\* "url")
HtmlBodies ==
    { [href |-> NoneStr, src |-> NoneStr, meta |-> "none"],
      [href |-> <<"x", ".", "pdf">>, src |-> NoneStr, meta |-> "none"],
      [href |-> NoneStr, src |-> <<"http://", "h", "/", "y", ".", "PDF">>, meta |-> "none"],
      [href |-> <<"my", "pdf", "s">>, src |-> NoneStr, meta |-> "none"],
      [href |-> <<"pdf">>, src |-> NoneStr, meta |-> "none"],
      [href |-> NoneStr, src |-> NoneStr, meta |-> "url"],
      [href |-> NoneStr, src |-> NoneStr, meta |-> "empty"] }

HtmlNoLink == [href |-> NoneStr, src |-> NoneStr, meta |-> "none"]

HtmlWithLink == [href |-> <<"x", ".", "pdf">>, src |-> NoneStr, meta |-> "none"]

\* a body that was not read (content-type not HTML, or reading it raised)
NoBody == [href |-> NoneStr, src |-> NoneStr, meta |-> "unread"]

NoResp == [ctype |-> [pdf |-> FALSE, html |-> FALSE], body |-> NoBody, got |-> FALSE]

\* response bodies as the chunks iter_content yields (sizes in bytes)
Bodies == { <<1023>>, <<1023, 1>>, <<0, 2048>> }

RECURSIVE SumSeq(_)
SumSeq(q) == IF q = <<>> THEN 0 ELSE Head(q) + SumSeq(Tail(q))

EmptyFs == [n \in {} |-> 0]

NoRet == [success |-> FALSE, file_path |-> NoneStr, message |-> <<"none">>]

Triple(ok, path, msg) == [success |-> ok, file_path |-> path, message |-> msg]

MsgNoUrl == <<"No PDF URL provided">>
MsgNoLink == <<"Could not find PDF link in HTML">>
MsgTooSmall == <<"Downloaded file too small (probably not a PDF)">>
MsgExists(name) == <<"Already exists: ", name>>
MsgDownloaded(name) == <<"Downloaded: ", name>>
MsgTimeout(title) == <<"Timeout downloading: ", Take(title, 30), "...">>
MsgRequest == <<"Download error: ", "...">>
MsgUnexpected == <<"Unexpected error: ", "...">>

\* characters re.sub(r'[<>:"/\\|?*]', '', title) removes
IllegalInFilename(c) == c \in {"<", ">", ":", "\"", "/", "\\", "|", "?", "*"}

LegalInFilename(c) == ~IllegalInFilename(c)

SpaceToUnderscore(s) == [i \in DOMAIN s |-> IF IsSpace(s[i]) THEN "_" ELSE s[i]]

\* str.rstrip('. ')
RECURSIVE RStripDotSpace(_)
RStripDotSpace(s) ==
    IF s # <<>> /\ s[Len(s)] \in {".", " "}
    THEN RStripDotSpace(SubSeq(s, 1, Len(s) - 1)) ELSE s

\* PDFDownloader._create_safe_filename(title); now is int(time.time())
_create_safe_filename(title, now) ==
    LET safe1 == SelectSeq(title, LegalInFilename)
        safe2 == SpaceToUnderscore(CollapseWs(Strip(safe1)))
        safe3 == RStripDotSpace(Take(safe2, MaxFilenameLen))
    IN  IF safe3 = <<>> THEN <<"paper_", now>> ELSE safe3

\* f"{safe_title}.pdf"
Filename(title, now) == _create_safe_filename(title, now) \o <<".", "pdf">>

\* pdf_url.endswith('.pdf')
EndsWithPdf(url) ==
    Len(url) >= 2 /\ url[Len(url) - 1] = "." /\ url[Len(url)] = "pdf"

\* re.findall(r'href=["\']([^"\']*.pdf[^"\']*)["\']', ..., re.IGNORECASE) on an
\* attribute value: "pdf" in any case, preceded by at least one character
MatchesPdfPattern(v) ==
    v # NoneStr /\ \E i \in 2..Len(v) : v[i] \in {"pdf", "PDF"}

\* urljoin(base_url, rel) for a relative path: replace what follows the last "/"
RECURSIVE UpToLastSlash(_)
UpToLastSlash(u) ==
    IF u = <<>> \/ u[Len(u)] = "/" THEN u ELSE UpToLastSlash(SubSeq(u, 1, Len(u) - 1))

UrlJoin(base, rel) == UpToLastSlash(base) \o rel

\* PDFDownloader._extract_pdf_from_html(html_content, base_url); parseRaises:
\* BeautifulSoup raised before the patterns were tried (the method returns None)
_extract_pdf_from_html(body, base_url, parseRaises) ==
    IF parseRaises THEN NoneStr
    ELSE IF MatchesPdfPattern(body.href)
         THEN (IF body.href[1] = "http://" THEN body.href ELSE UrlJoin(base_url, body.href))
    ELSE IF MatchesPdfPattern(body.src)
         THEN (IF body.src[1] = "http://" THEN body.src ELSE UrlJoin(base_url, body.src))
    ELSE IF body.meta = "url" THEN <<"http://", "h", "/", "meta", ".", "pdf">>
    ELSE NoneStr

\* variant of the exists() test that looks at the wrong path
TargetNeverExists(fsx, name) == FALSE

\* file_path.exists()
TargetExists(fsx, name) == name \in DOMAIN fsx

\* variant of line 62 with the `not` before endswith dropped
NeedsHtmlCheckUrlNegationDropped(ctype, url) == ~ctype.pdf /\ EndsWithPdf(url)

\* line 62: 'pdf' not in content_type and not pdf_url.endswith('.pdf')
NeedsHtmlCheck(ctype, url) == ~ctype.pdf /\ ~EndsWithPdf(url)

\* variant of line 79 with <= in place of <
TooSmallInclusive(size) == size <= MinPdfSize

\* line 79: file_path.stat().st_size < 1024
TooSmall(size) == size < MinPdfSize

\* variant of the except clauses without the final `except Exception`
HandleWithoutCatchAll(e, title) ==
    CASE e = "timeout" -> [pc |-> "ret", ret |-> Triple(FALSE, NoneStr, MsgTimeout(title))]
      [] e = "request" -> [pc |-> "ret", ret |-> Triple(FALSE, NoneStr, MsgRequest)]
      [] OTHER -> [pc |-> "dp_raised", ret |-> NoRet]

\* the except clauses of download_paper (lines 86-91): what the call does with
\* an exception of kind e ("timeout", "request", "other") raised inside the try
Handle(e, title) ==
    CASE e = "timeout" -> [pc |-> "ret", ret |-> Triple(FALSE, NoneStr, MsgTimeout(title))]
      [] e = "request" -> [pc |-> "ret", ret |-> Triple(FALSE, NoneStr, MsgRequest)]
      [] OTHER -> [pc |-> "ret", ret |-> Triple(FALSE, NoneStr, MsgUnexpected)]

\* variant of the result dict with index i in place of i + 1
MakeResultIndexFromZero(paper, r, i, total) ==
    [ paper |-> paper, success |-> r.success,
      file_path |-> r.file_path, message |-> r.message,
      index |-> i, total |-> total ]

\* the result dict download_papers builds for item i (0-based)
MakeResult(paper, r, i, total) ==
    [ paper |-> paper, success |-> r.success,
      file_path |-> r.file_path, message |-> r.message,
      index |-> i + 1, total |-> total ]

\* variant of line 122 that also pauses after the last item
PacesAfterEveryItem(i, total) == i < total

\* line 122: if i < total_papers - 1 (i is the 0-based index of the item)
PacesAfter(i, total) == i < total - 1

WriteFile(fsx, name, size) ==
    [n \in DOMAIN fsx \cup {name} |-> IF n = name THEN size ELSE fsx[n]]

RemoveFile(fsx, name) == [n \in DOMAIN fsx \ {name} |-> fsx[n]]

CurPaper == batch[cur]

DownloadInit ==
    /\ d_pc = "loop"
    /\ batch \in Batches
    /\ has_cb \in BOOLEAN
    /\ cur = 0
    /\ results = <<>>
    /\ fs = EmptyFs
    /\ ret = NoRet
    /\ events = <<>>
    /\ target = NoneStr
    /\ pre = -1
    /\ gets = 0
    /\ resp1 = NoResp
    /\ streamed = -1
    /\ unlink_raised = FALSE
    /\ exc = "none"

\* loop head and download_paper up to the exists() test (lines 104-51)
DownloadPaperBegin ==
    /\ d_pc = "loop"
    /\ cur < Len(batch)
    /\ cur' = cur + 1
    /\ events' = Append(events, <<"fetch", cur + 1>>)
    /\ LET paper == batch[cur + 1]
       IN  IF paper.pdf_url = NoneStr
           THEN /\ ret' = Triple(FALSE, NoneStr, MsgNoUrl)
                /\ d_pc' = "ret"
                /\ UNCHANGED <<target, pre>>
           ELSE \E now \in Times :
                  LET name == Filename(paper.title, now)
                  IN  /\ target' = name
                      /\ pre' = IF name \in DOMAIN fs THEN fs[name] ELSE -1
                      /\ IF TargetExists(fs, name)
                         THEN /\ ret' = Triple(TRUE, name, MsgExists(name))
                              /\ d_pc' = "ret"
                         ELSE /\ ret' = NoRet
                              /\ d_pc' = "get1"
    /\ UNCHANGED <<batch, has_cb, results, fs, gets, resp1, streamed, unlink_raised, exc>>
    /\ UNCHANGED <<searchVars, stVars, rcVars, appVars>>

\* session.get(pdf_url) or raise_for_status() raises (lines 57-58)
FirstGetRaises ==
    /\ d_pc = "get1"
    /\ gets' = gets + 1
    /\ \E e \in {"timeout", "request", "other"} :
          /\ exc' = e
          /\ d_pc' = Handle(e, CurPaper.title).pc
          /\ ret' = Handle(e, CurPaper.title).ret
    /\ UNCHANGED <<batch, has_cb, cur, results, fs, events, target, pre, resp1,
                   streamed, unlink_raised>>
    /\ UNCHANGED <<searchVars, stVars, rcVars, appVars>>

\* the first GET answers and the content-type is looked at (lines 57-70)
FirstGetAnswers ==
    /\ d_pc = "get1"
    /\ gets' = gets + 1
    /\ \E ctype \in CTypes :
          IF NeedsHtmlCheck(ctype, CurPaper.pdf_url) /\ ctype.html
          THEN \/ \* response.text raises while the body is read
                  /\ resp1' = [ctype |-> ctype, body |-> NoBody, got |-> TRUE]
                  /\ exc' = "request"
                  /\ d_pc' = Handle("request", CurPaper.title).pc
                  /\ ret' = Handle("request", CurPaper.title).ret
               \/ \E body \in HtmlBodies, parseRaises \in BOOLEAN :
                    /\ resp1' = [ctype |-> ctype, body |-> body, got |-> TRUE]
                    /\ exc' = exc
                    /\ IF _extract_pdf_from_html(body, CurPaper.pdf_url, parseRaises) # NoneStr
                       THEN d_pc' = "get2" /\ ret' = NoRet
                       ELSE d_pc' = "ret" /\ ret' = Triple(FALSE, NoneStr, MsgNoLink)
          ELSE \E body \in {HtmlNoLink, HtmlWithLink, NoBody} :
                  /\ ctype.html <=> body # NoBody
                  /\ resp1' = [ctype |-> ctype, body |-> body, got |-> TRUE]
                  /\ exc' = exc
                  /\ d_pc' = "save"
                  /\ ret' = NoRet
    /\ UNCHANGED <<batch, has_cb, cur, results, fs, events, target, pre,
                   streamed, unlink_raised>>
    /\ UNCHANGED <<searchVars, stVars, rcVars, appVars>>

\* the GET of the recovered URL raises (lines 67-68)
SecondGetRaises ==
    /\ d_pc = "get2"
    /\ gets' = gets + 1
    /\ \E e \in {"timeout", "request", "other"} :
          /\ exc' = e
          /\ d_pc' = Handle(e, CurPaper.title).pc
          /\ ret' = Handle(e, CurPaper.title).ret
    /\ UNCHANGED <<batch, has_cb, cur, results, fs, events, target, pre, resp1,
                   streamed, unlink_raised>>
    /\ UNCHANGED <<searchVars, stVars, rcVars, appVars>>

SecondGetAnswers ==
    /\ d_pc = "get2"
    /\ gets' = gets + 1
    /\ d_pc' = "save"
    /\ UNCHANGED <<batch, has_cb, cur, results, fs, ret, events, target, pre, resp1,
                   streamed, unlink_raised, exc>>
    /\ UNCHANGED <<searchVars, stVars, rcVars, appVars>>

\* open(file_path, 'wb') raises: nothing is written (line 73)
OpenRaises ==
    /\ d_pc = "save"
    /\ exc' = "other"
    /\ d_pc' = Handle("other", CurPaper.title).pc
    /\ ret' = Handle("other", CurPaper.title).ret
    /\ UNCHANGED <<batch, has_cb, cur, results, fs, events, target, pre, gets, resp1,
                   streamed, unlink_raised>>
    /\ UNCHANGED <<searchVars, stVars, rcVars, appVars>>

\* the file is created and iter_content or f.write raises once k chunks are
\* written (lines 73-76): what was written stays on disk
StreamRaises ==
    /\ d_pc = "save"
    /\ \E body \in Bodies, e \in {"request", "other"} :
       \E k \in 0..(Len(body) - 1) :
          /\ fs' = WriteFile(fs, target, SumSeq(SubSeq(body, 1, k)))
          /\ exc' = e
          /\ d_pc' = Handle(e, CurPaper.title).pc
          /\ ret' = Handle(e, CurPaper.title).ret
    /\ UNCHANGED <<batch, has_cb, cur, results, events, target, pre, gets, resp1,
                   streamed, unlink_raised>>
    /\ UNCHANGED <<searchVars, stVars, rcVars, appVars>>

\* the whole body is streamed to the file (lines 73-76)
StreamCompletes ==
    /\ d_pc = "save"
    /\ \E body \in Bodies :
          /\ fs' = WriteFile(fs, target, SumSeq(body))
          /\ streamed' = SumSeq(body)
    /\ d_pc' = "verify"
    /\ UNCHANGED <<batch, has_cb, cur, results, ret, events, target, pre, gets, resp1,
                   unlink_raised, exc>>
    /\ UNCHANGED <<searchVars, stVars, rcVars, appVars>>

\* the size check (lines 79-84)
VerifyFile ==
    /\ d_pc = "verify"
    /\ IF TooSmall(fs[target])
       THEN \/ /\ fs' = RemoveFile(fs, target)
               /\ d_pc' = "ret"
               /\ ret' = Triple(FALSE, NoneStr, MsgTooSmall)
               /\ UNCHANGED <<unlink_raised, exc>>
            \/ \* unlink() raises: the file stays
               /\ unlink_raised' = TRUE
               /\ exc' = "other"
               /\ d_pc' = Handle("other", CurPaper.title).pc
               /\ ret' = Handle("other", CurPaper.title).ret
               /\ UNCHANGED fs
       ELSE /\ d_pc' = "ret"
            /\ ret' = Triple(TRUE, target, MsgDownloaded(target))
            /\ UNCHANGED <<fs, unlink_raised, exc>>
    /\ UNCHANGED <<batch, has_cb, cur, results, events, target, pre, gets, resp1, streamed>>
    /\ UNCHANGED <<searchVars, stVars, rcVars, appVars>>

\* results.append(result) (lines 107-115)
AppendResult ==
    /\ d_pc = "ret"
    /\ results' = Append(results, MakeResult(CurPaper, ret, cur - 1, Len(batch)))
    /\ events' = Append(events, <<"append", cur>>)
    /\ d_pc' = IF has_cb THEN "callback" ELSE "pace"
    /\ ret' = NoRet
    /\ target' = NoneStr
    /\ pre' = -1
    /\ gets' = 0
    /\ resp1' = NoResp
    /\ streamed' = -1
    /\ unlink_raised' = FALSE
    /\ exc' = "none"
    /\ UNCHANGED <<batch, has_cb, cur, fs>>
    /\ UNCHANGED <<searchVars, stVars, rcVars, appVars>>

\* progress_callback(i + 1, total_papers, result) returns (lines 118-119)
CallbackReturns ==
    /\ d_pc = "callback"
    /\ events' = Append(events, <<"cb", results[Len(results)].index>>)
    /\ d_pc' = "pace"
    /\ UNCHANGED <<batch, has_cb, cur, results, fs, ret, target, pre, gets, resp1,
                   streamed, unlink_raised, exc>>
    /\ UNCHANGED <<searchVars, stVars, rcVars, appVars>>

\* progress_callback raises: nothing in download_papers catches it
CallbackRaises ==
    /\ d_pc = "callback"
    /\ events' = Append(events, <<"cb", results[Len(results)].index>>)
    /\ d_pc' = "cb_raised"
    /\ UNCHANGED <<batch, has_cb, cur, results, fs, ret, target, pre, gets, resp1,
                   streamed, unlink_raised, exc>>
    /\ UNCHANGED <<searchVars, stVars, rcVars, appVars>>

\* time.sleep(1) unless this was the last item (lines 122-123)
Pace ==
    /\ d_pc = "pace"
    /\ events' = IF PacesAfter(cur - 1, Len(batch))
                  THEN Append(events, <<"sleep", cur>>) ELSE events
    /\ d_pc' = "loop"
    /\ UNCHANGED <<batch, has_cb, cur, results, fs, ret, target, pre, gets, resp1,
                   streamed, unlink_raised, exc>>
    /\ UNCHANGED <<searchVars, stVars, rcVars, appVars>>

\* return results (line 125)
BatchReturns ==
    /\ d_pc = "loop"
    /\ cur = Len(batch)
    /\ d_pc' = "returned"
    /\ UNCHANGED <<batch, has_cb, cur, results, fs, ret, events, target, pre, gets,
                   resp1, streamed, unlink_raised, exc>>
    /\ UNCHANGED <<searchVars, stVars, rcVars, appVars>>

DownloadNext ==
    \/ DownloadPaperBegin
    \/ FirstGetRaises
    \/ FirstGetAnswers
    \/ SecondGetRaises
    \/ SecondGetAnswers
    \/ OpenRaises
    \/ StreamRaises
    \/ StreamCompletes
    \/ VerifyFile
    \/ AppendResult
    \/ CallbackReturns
    \/ CallbackRaises
    \/ Pace
    \/ BatchReturns


\* ------------------------------------------------------------------------
\* get_download_stats
\* ------------------------------------------------------------------------
BytesPerMb == 1048576

\* directories get_download_stats is run on: any subset of these files, each
\* with one of three sizes (131072 bytes are 0.125 MB)
DirNames == { <<"a", ".", "pdf">>, <<"b", ".", "pdf">>, <<"notes", ".", "txt">> }

FileSizes == {0, 1024, 131072}

Dirs == UNION {[names -> FileSizes] : names \in SUBSET DirNames}

\* self.download_dir.glob('*.pdf')
PdfNames(fsx) == {n \in DOMAIN fsx : EndsWithPdf(n)}

\* the orders in which glob may list a set of names
Listings(names) ==
    {q \in [1..Cardinality(names) -> names] : \A i, j \in DOMAIN q : i # j => q[i] # q[j]}

RECURSIVE TotalSize(_, _)
TotalSize(fsx, q) == IF q = <<>> THEN 0 ELSE fsx[Head(q)] + TotalSize(fsx, Tail(q))

\* round(total_size / (1024 * 1024), 2), in hundredths of a MB: the quotient
\* is exact in floating point for these sizes and round() rounds half to even
SizeMbHundredths(total) ==
    LET q == (total * 100) \div BytesPerMb
        r == (total * 100) % BytesPerMb
    IN  IF 2 * r > BytesPerMb \/ (2 * r = BytesPerMb /\ q % 2 = 1) THEN q + 1 ELSE q

\* the dict returned when the directory does not exist (line 181)
StatsNoDir == [total_files |-> 0, total_size |-> 0]

\* the dict returned after the scan (lines 186-191)
StatsOf(fsx, q) ==
    [ total_files |-> Len(q),
      total_size |-> TotalSize(fsx, q),
      total_size_mb |-> SizeMbHundredths(TotalSize(fsx, q)),
      files |-> q ]

NoStats == [total_files |-> -1]

StatsIdle ==
    /\ st_pc = "idle"
    /\ dir_exists = TRUE
    /\ pdf_files = <<>>
    /\ stats = NoStats

\* another process removes the download directory after __init__ created it
EnvRemoveDir ==
    /\ st_pc = "idle"
    /\ dir_exists
    /\ dir_exists' = FALSE
    /\ fs' = EmptyFs
    /\ UNCHANGED <<st_pc, pdf_files, stats>>
    /\ UNCHANGED <<d_pc, batch, has_cb, cur, results, ret, events, target, pre, gets,
                   resp1, streamed, unlink_raised, exc>>
    /\ UNCHANGED <<searchVars, rcVars, appVars>>

\* not self.download_dir.exists(): return the short dict (lines 180-181)
StatsDirMissing ==
    /\ st_pc = "idle"
    /\ ~dir_exists
    /\ stats' = StatsNoDir
    /\ st_pc' = "returned"
    /\ UNCHANGED <<dir_exists, pdf_files>>
    /\ UNCHANGED <<searchVars, dlVars, rcVars, appVars>>

\* pdf_files = list(self.download_dir.glob('*.pdf')) (line 183)
StatsGlob ==
    /\ st_pc = "idle"
    /\ dir_exists
    /\ pdf_files' \in Listings(PdfNames(fs))
    /\ st_pc' = "scan"
    /\ UNCHANGED <<dir_exists, stats>>
    /\ UNCHANGED <<searchVars, dlVars, rcVars, appVars>>

\* another process deletes a file between the glob and the stat calls
EnvRemoveFile ==
    /\ st_pc = "scan"
    /\ \E n \in DOMAIN fs : fs' = RemoveFile(fs, n)
    /\ UNCHANGED stVars
    /\ UNCHANGED <<d_pc, batch, has_cb, cur, results, ret, events, target, pre, gets,
                   resp1, streamed, unlink_raised, exc>>
    /\ UNCHANGED <<searchVars, rcVars, appVars>>

\* every f.stat() succeeds and the dict is returned (lines 184-191)
StatsReturns ==
    /\ st_pc = "scan"
    /\ \A i \in DOMAIN pdf_files : pdf_files[i] \in DOMAIN fs
    /\ stats' = StatsOf(fs, pdf_files)
    /\ st_pc' = "returned"
    /\ UNCHANGED <<dir_exists, pdf_files>>
    /\ UNCHANGED <<searchVars, dlVars, rcVars, appVars>>

\* f.stat() raises FileNotFoundError for a listed file that is gone (line 184)
StatsStatRaises ==
    /\ st_pc = "scan"
    /\ \E i \in DOMAIN pdf_files : pdf_files[i] \notin DOMAIN fs
    /\ st_pc' = "raised"
    /\ UNCHANGED <<dir_exists, pdf_files, stats>>
    /\ UNCHANGED <<searchVars, dlVars, rcVars, appVars>>

StatsNext ==
    \/ EnvRemoveDir
    \/ StatsDirMissing
    \/ StatsGlob
    \/ EnvRemoveFile
    \/ StatsReturns
    \/ StatsStatRaises


\* ------------------------------------------------------------------------
\* two download_paper calls running at the same time on the same file name
\* (worker threads started by app.py); files behave as on POSIX: a path can
\* be unlinked while a file object for it is open
\* ------------------------------------------------------------------------
Callers == {1, 2}

\* f"{safe_title}.pdf" of both papers
RaceName == <<"a", ".", "pdf">>

\* papers with a pdf_url whose title gives that file name
RacePapers ==
    {p \in PaperSet : p.pdf_url # NoneStr /\ Filename(p.title, "1000") = RaceName}

NoHandle == [open |-> FALSE, linked |-> FALSE, pos |-> 0, left |-> <<>>]

RaceIdle ==
    /\ rc_pc = [t \in Callers |-> "idle"]
    /\ rc_paper = [t \in Callers |-> [title |-> <<>>, pdf_url |-> NoneStr]]
    /\ rc_fs = EmptyFs
    /\ rc_h = [t \in Callers |-> NoHandle]
    /\ rc_ret = [t \in Callers |-> NoRet]
    /\ rc_order = <<>>
    /\ rc_opened = {}

\* both calls have been entered; the target file is absent
RaceInit ==
    /\ rc_pc = [t \in Callers |-> "exists"]
    /\ rc_paper \in [Callers -> RacePapers]
    /\ rc_fs = EmptyFs
    /\ rc_h = [t \in Callers |-> NoHandle]
    /\ rc_ret = [t \in Callers |-> NoRet]
    /\ rc_order = <<>>
    /\ rc_opened = {}

\* call t returns the triple r
RaceReturn(t, r) ==
    /\ rc_pc' = [rc_pc EXCEPT ![t] = "done"]
    /\ rc_ret' = [rc_ret EXCEPT ![t] = r]
    /\ rc_order' = Append(rc_order, t)

RaceGoto(t, pc) ==
    /\ rc_pc' = [rc_pc EXCEPT ![t] = pc]
    /\ UNCHANGED <<rc_ret, rc_order>>

Larger(a, b) == IF a > b THEN a ELSE b

\* if file_path.exists(): return True, file_path, "Already exists" (lines 48-51)
RaceExistsCheck ==
    \E t \in Callers :
        /\ rc_pc[t] = "exists"
        /\ IF TargetExists(rc_fs, RaceName)
           THEN RaceReturn(t, Triple(TRUE, RaceName, MsgExists(RaceName)))
           ELSE RaceGoto(t, "get1")
        /\ UNCHANGED <<rc_paper, rc_fs, rc_h, rc_opened>>
        /\ UNCHANGED <<searchVars, dlVars, stVars, appVars>>

\* a session.get or raise_for_status raises (lines 57-58, 67-68)
RaceGetRaises ==
    \E t \in Callers, e \in {"timeout", "request", "other"} :
        /\ rc_pc[t] \in {"get1", "get2"}
        /\ RaceReturn(t, Handle(e, rc_paper[t].title).ret)
        /\ UNCHANGED <<rc_paper, rc_fs, rc_h, rc_opened>>
        /\ UNCHANGED <<searchVars, dlVars, stVars, appVars>>

\* the first GET answers and the content-type is looked at (lines 57-70)
RaceFirstGetAnswers ==
    \E t \in Callers, ctype \in CTypes :
        /\ rc_pc[t] = "get1"
        /\ IF NeedsHtmlCheck(ctype, rc_paper[t].pdf_url) /\ ctype.html
           THEN \E body \in {HtmlNoLink, HtmlWithLink} :
                   IF _extract_pdf_from_html(body, rc_paper[t].pdf_url, FALSE) # NoneStr
                   THEN RaceGoto(t, "get2")
                   ELSE RaceReturn(t, Triple(FALSE, NoneStr, MsgNoLink))
           ELSE RaceGoto(t, "open")
        /\ UNCHANGED <<rc_paper, rc_fs, rc_h, rc_opened>>
        /\ UNCHANGED <<searchVars, dlVars, stVars, appVars>>

\* the GET of the recovered URL answers (lines 67-68)
RaceSecondGetAnswers ==
    \E t \in Callers :
        /\ rc_pc[t] = "get2"
        /\ RaceGoto(t, "open")
        /\ UNCHANGED <<rc_paper, rc_fs, rc_h, rc_opened>>
        /\ UNCHANGED <<searchVars, dlVars, stVars, appVars>>

\* open(file_path, 'wb'): creates the file or truncates the one at the path
\* (line 73); body is what the response will yield
RaceOpen ==
    \E t \in Callers, body \in Bodies :
        /\ rc_pc[t] = "open"
        /\ rc_fs' = WriteFile(rc_fs, RaceName, 0)
        /\ rc_h' = [rc_h EXCEPT ![t] =
                       [open |-> TRUE, linked |-> TRUE, pos |-> 0, left |-> body]]
        /\ rc_opened' = rc_opened \cup {t}
        /\ RaceGoto(t, "write")
        /\ UNCHANGED rc_paper
        /\ UNCHANGED <<searchVars, dlVars, stVars, appVars>>

\* f.write(chunk) at the file object's own offset (lines 74-76)
RaceWriteChunk ==
    \E t \in Callers :
        /\ rc_pc[t] = "write"
        /\ rc_h[t].left # <<>>
        /\ LET pos == rc_h[t].pos + Head(rc_h[t].left)
           IN  /\ rc_h' = [rc_h EXCEPT ![t].pos = pos, ![t].left = Tail(rc_h[t].left)]
               /\ rc_fs' = IF rc_h[t].linked
                           THEN WriteFile(rc_fs, RaceName, Larger(rc_fs[RaceName], pos))
                           ELSE rc_fs
        /\ UNCHANGED <<rc_pc, rc_paper, rc_ret, rc_order, rc_opened>>
        /\ UNCHANGED <<searchVars, dlVars, stVars, appVars>>

\* the with block is left: the file object is closed (line 76)
RaceClose ==
    \E t \in Callers :
        /\ rc_pc[t] = "write"
        /\ rc_h[t].left = <<>>
        /\ rc_h' = [rc_h EXCEPT ![t].open = FALSE]
        /\ RaceGoto(t, "stat")
        /\ UNCHANGED <<rc_paper, rc_fs, rc_opened>>
        /\ UNCHANGED <<searchVars, dlVars, stVars, appVars>>

\* file_path.stat().st_size < 1024 (line 79); stat() raises FileNotFoundError
\* when the other call has unlinked the path
RaceStat ==
    \E t \in Callers :
        /\ rc_pc[t] = "stat"
        /\ IF ~TargetExists(rc_fs, RaceName)
           THEN RaceReturn(t, Handle("other", rc_paper[t].title).ret)
           ELSE IF TooSmall(rc_fs[RaceName])
                THEN RaceGoto(t, "unlink")
                ELSE RaceReturn(t, Triple(TRUE, RaceName, MsgDownloaded(RaceName)))
        /\ UNCHANGED <<rc_paper, rc_fs, rc_h, rc_opened>>
        /\ UNCHANGED <<searchVars, dlVars, stVars, appVars>>

\* file_path.unlink() and the "too small" return (lines 80-81); unlink()
\* raises FileNotFoundError when the other call has unlinked the path
RaceUnlink ==
    \E t \in Callers :
        /\ rc_pc[t] = "unlink"
        /\ IF TargetExists(rc_fs, RaceName)
           THEN /\ rc_fs' = RemoveFile(rc_fs, RaceName)
                /\ rc_h' = [u \in Callers |-> [rc_h[u] EXCEPT !.linked = FALSE]]
                /\ RaceReturn(t, Triple(FALSE, NoneStr, MsgTooSmall))
           ELSE /\ RaceReturn(t, Handle("other", rc_paper[t].title).ret)
                /\ UNCHANGED <<rc_fs, rc_h>>
        /\ UNCHANGED <<rc_paper, rc_opened>>
        /\ UNCHANGED <<searchVars, dlVars, stVars, appVars>>

RaceNext ==
    \/ RaceExistsCheck
    \/ RaceGetRaises
    \/ RaceFirstGetAnswers
    \/ RaceSecondGetAnswers
    \/ RaceOpen
    \/ RaceWriteChunk
    \/ RaceClose
    \/ RaceStat
    \/ RaceUnlink


\* ------------------------------------------------------------------------
\* app.py: the Streamlit script, its buttons and the worker threads it starts
\* ------------------------------------------------------------------------
MaxWorkers == 3

WorkerIds == 1..MaxWorkers

NoWorker == [pc |-> "none", kind |-> "none"]

NoPage == [search |-> FALSE, download |-> FALSE]

\* worker threads started and not yet finished
Active == {w \in WorkerIds : workers[w].pc \in {"started", "running"}}

\* the next threading.Thread the script creates
NextWorker == CHOOSE w \in WorkerIds : workers[w].pc = "none" /\
                  \A v \in WorkerIds : workers[v].pc = "none" => w <= v

CanStart == \E w \in WorkerIds : workers[w].pc = "none"

AppIdle ==
    /\ processing = FALSE
    /\ workers = [w \in WorkerIds |-> NoWorker]
    /\ rendered = NoPage
    /\ has_results = FALSE

\* init_session_state on the first run of the script (lines 40-51)
AppInit ==
    /\ processing = FALSE
    /\ workers = [w \in WorkerIds |-> NoWorker]
    /\ rendered = NoPage
    /\ has_results = FALSE

\* a run of main() that finds processing false: the search button is enabled
\* and, when there are search results, so are Download All and the per-paper
\* Download buttons (lines 166-170, 331, 210-214, 255)
ScriptRunIdle ==
    /\ ~processing
    /\ rendered' = [search |-> TRUE, download |-> has_results]
    /\ UNCHANGED <<processing, workers, has_results>>
    /\ UNCHANGED <<searchVars, dlVars, stVars, rcVars>>

\* a run of main() that finds processing true: the search button is disabled
\* and the run ends in sleep(1); st.rerun() before the results are rendered
\* (lines 166-170, 331-333)
ScriptRunBusy ==
    /\ processing
    /\ rendered' = NoPage
    /\ UNCHANGED <<processing, workers, has_results>>
    /\ UNCHANGED <<searchVars, dlVars, stVars, rcVars>>

\* the script starts a worker thread and calls st.rerun(): the page is being
\* rendered anew
StartWorker(kind) ==
    /\ CanStart
    /\ workers' = [workers EXCEPT ![NextWorker] = [pc |-> "started", kind |-> kind]]
    /\ rendered' = NoPage
    /\ UNCHANGED <<processing, has_results>>

\* Search Papers is pressed on a page that shows it enabled, and the run the
\* press triggers finds processing false (lines 166-179)
PressSearch ==
    /\ rendered.search
    /\ ~processing
    /\ StartWorker("search")
    /\ UNCHANGED <<searchVars, dlVars, stVars, rcVars>>

\* Download All PDFs is pressed on a page that shows it enabled, and the run
\* the press triggers finds processing false (lines 210-222)
PressDownloadAll ==
    /\ rendered.download
    /\ ~processing
    /\ StartWorker("download")
    /\ UNCHANGED <<searchVars, dlVars, stVars, rcVars>>

\* a per-paper Download button is pressed and the run the press triggers gets
\* past the auto-refresh at line 331 (lines 255-261; the button has no
\* `disabled`)
PressDownloadOne ==
    /\ rendered.download
    /\ ~processing
    /\ StartWorker("download_one")
    /\ UNCHANGED <<searchVars, dlVars, stVars, rcVars>>

\* the thread runs its first statement: st.session_state.processing = True
\* (lines 56, 87)
WorkerBegin ==
    \E w \in WorkerIds :
        /\ workers[w].pc = "started"
        /\ workers' = [workers EXCEPT ![w].pc = "running"]
        /\ processing' = TRUE
        /\ UNCHANGED <<rendered, has_results>>
        /\ UNCHANGED <<searchVars, dlVars, stVars, rcVars>>

\* the body of the try completes; finally: processing = False
\* (lines 69-82 / 104-125); a search stores its papers
WorkerCompletes ==
    \E w \in WorkerIds :
        /\ workers[w].pc = "running"
        /\ workers' = [workers EXCEPT ![w].pc = "finished"]
        /\ processing' = FALSE
        /\ IF workers[w].kind = "search"
           THEN has_results' \in BOOLEAN
           ELSE has_results' = has_results
        /\ UNCHANGED rendered
        /\ UNCHANGED <<searchVars, dlVars, stVars, rcVars>>

\* the body of the try raises: except Exception, then finally: processing =
\* False (lines 78-82 / 117-125)
WorkerRaises ==
    \E w \in WorkerIds :
        /\ workers[w].pc = "running"
        /\ workers' = [workers EXCEPT ![w].pc = "raised"]
        /\ processing' = FALSE
        /\ UNCHANGED <<rendered, has_results>>
        /\ UNCHANGED <<searchVars, dlVars, stVars, rcVars>>

AppNext ==
    \/ ScriptRunIdle
    \/ ScriptRunBusy
    \/ PressSearch
    \/ PressDownloadAll
    \/ PressDownloadOne
    \/ WorkerBegin
    \/ WorkerCompletes
    \/ WorkerRaises


\* ========================================================================
\* Specifications
\* ========================================================================
DownloadIdle ==
    /\ d_pc = "idle"
    /\ batch = <<>>
    /\ has_cb = FALSE
    /\ cur = 0
    /\ results = <<>>
    /\ fs = EmptyFs
    /\ ret = NoRet
    /\ events = <<>>
    /\ target = NoneStr
    /\ pre = -1
    /\ gets = 0
    /\ resp1 = NoResp
    /\ streamed = -1
    /\ unlink_raised = FALSE
    /\ exc = "none"

SearchIdle ==
    /\ s_pc = "idle"
    /\ max_papers = 0
    /\ min_year = DefaultYear
    /\ todo = 0
    /\ papers = <<>>
    /\ all_papers = <<>>
    /\ unique_papers = <<>>
    /\ s_result = <<>>
    /\ invoked = <<>>
    /\ skipped = FALSE

\* PDFDownloader.__init__ has created the directory; it holds some files
StatsInit ==
    /\ st_pc = "idle"
    /\ dir_exists = TRUE
    /\ fs \in Dirs
    /\ pdf_files = <<>>
    /\ stats = NoStats

InitSearch == SearchInit /\ DownloadIdle /\ StatsIdle /\ RaceIdle /\ AppIdle

InitDownload == DownloadInit /\ SearchIdle /\ StatsIdle /\ RaceIdle /\ AppIdle

InitStats ==
    /\ StatsInit
    /\ SearchIdle
    /\ RaceIdle
    /\ AppIdle
    /\ d_pc = "idle"
    /\ batch = <<>>
    /\ has_cb = FALSE
    /\ cur = 0
    /\ results = <<>>
    /\ ret = NoRet
    /\ events = <<>>
    /\ target = NoneStr
    /\ pre = -1
    /\ gets = 0
    /\ resp1 = NoResp
    /\ streamed = -1
    /\ unlink_raised = FALSE
    /\ exc = "none"

InitRace == RaceInit /\ SearchIdle /\ DownloadIdle /\ StatsIdle /\ AppIdle

InitApp == AppInit /\ SearchIdle /\ DownloadIdle /\ StatsIdle /\ RaceIdle

SpecSearch == InitSearch /\ [][SearchNext]_vars

SpecDownload == InitDownload /\ [][DownloadNext]_vars

SpecStats == InitStats /\ [][StatsNext]_vars

SpecRace == InitRace /\ [][RaceNext]_vars

SpecApp == InitApp /\ [][AppNext]_vars


\* ========================================================================
\* Claims checked under SpecSearch
\* ========================================================================
Retained(p) == p.title # <<>> /\ p.pdf_url # None /\ p.year >= min_year

\* C1: every Paper a provider client returns (ArXiv or Semantic Scholar) has a
\* non-empty title, a present pdf_url and year >= min_year, also when the year
\* of an item is missing, null or unparsable and when items raise in parsing.
C1_ProviderPapersRetainedOnlyIfValid ==
    /\ \A i \in DOMAIN papers : Retained(papers[i])
    /\ \A i \in DOMAIN all_papers : Retained(all_papers[i])

\* both providers have returned a paper that got the default year, and an item
\* was skipped by the per-item except
C1_Witness ==
    /\ s_pc = "s2_return"
    /\ skipped
    /\ \E i \in DOMAIN all_papers :
          all_papers[i].source = "ArXiv" /\ all_papers[i].year = DefaultYear
    /\ \E i \in DOMAIN papers :
          papers[i].source = "Semantic Scholar" /\ papers[i].year = DefaultYear

\* index of the first accumulated paper with the normalized title of paper k
FirstWithTitle(k) ==
    CHOOSE i \in DOMAIN all_papers :
        /\ SimpleTitle(all_papers[i].title) = SimpleTitle(all_papers[k].title)
        /\ \A j \in DOMAIN all_papers :
              SimpleTitle(all_papers[j].title) = SimpleTitle(all_papers[k].title) => i <= j

NoTwoSameTitle(ps) ==
    \A i, j \in DOMAIN ps :
        i # j => SimpleTitle(ps[i].title) # SimpleTitle(ps[j].title)

\* C2: after deduplication no two papers share a normalized title, the paper
\* kept for a normalized title is the first one accumulated (ArXiv before
\* Semantic Scholar), and the kept papers stay in accumulation order.
C2_DedupFirstSourceWins ==
    s_pc = "done" =>
        /\ NoTwoSameTitle(unique_papers)
        /\ NoTwoSameTitle(s_result)
        /\ \A k \in DOMAIN all_papers :
              \E i \in DOMAIN unique_papers :
                  /\ unique_papers[i] = all_papers[FirstWithTitle(k)]
                  /\ SimpleTitle(unique_papers[i].title) = SimpleTitle(all_papers[k].title)
        /\ Len(unique_papers) =
              Cardinality({SimpleTitle(all_papers[k].title) : k \in DOMAIN all_papers})
        /\ \A k \in DOMAIN all_papers :
              all_papers[k].source = "Semantic Scholar"
              /\ all_papers[FirstWithTitle(k)].source = "ArXiv"
              => \A i \in DOMAIN unique_papers :
                    SimpleTitle(unique_papers[i].title) = SimpleTitle(all_papers[k].title)
                    => unique_papers[i].source = "ArXiv"

\* an ArXiv paper and a Semantic Scholar paper whose titles differ as strings
\* but agree once normalized were accumulated, and the search has returned
C2_Witness ==
    /\ s_pc = "done"
    /\ \E i, k \in DOMAIN all_papers :
          /\ all_papers[i].source = "ArXiv"
          /\ all_papers[k].source = "Semantic Scholar"
          /\ all_papers[i].title # all_papers[k].title
          /\ SimpleTitle(all_papers[i].title) = SimpleTitle(all_papers[k].title)
    /\ Len(unique_papers) >= 2

\* C3: the sequence MultiSourceSearcher.search_papers returns is sorted by year
\* in non-increasing order and is at most max_papers long.
C3_ResultSortedAndCapped ==
    s_pc = "done" =>
        /\ Len(s_result) <= max_papers
        /\ \A i, j \in DOMAIN s_result : i < j => s_result[i].year >= s_result[j].year

\* the deduplicated papers were not in year order and the result holds three
C3_Witness ==
    /\ s_pc = "done"
    /\ Len(s_result) >= 3
    /\ s_result # unique_papers
    /\ \E i, j \in DOMAIN s_result : s_result[i].year # s_result[j].year

\* ========================================================================
\* Claims checked under SpecDownload
\* ========================================================================
IsCb(e) == e[1] = "cb"

CbEvents == SelectSeq(events, IsCb)

Before(p, e) == \E q \in 1..(p - 1) : events[q] = e

\* C4: download_papers over N papers returns N results in input order, the
\* i-th with the i-th paper, index i and total N, whatever each fetch did; a
\* supplied progress_callback is called N times with current = 1..N, each call
\* after result i is appended and before fetch i + 1 starts.  (A call that a
\* raising callback aborts does not return; that case is C9.)
C4_BatchResultsAndProgress ==
    /\ d_pc = "returned" =>
          /\ Len(results) = Len(batch)
          /\ \A i \in DOMAIN results :
                /\ results[i].paper = batch[i]
                /\ results[i].index = i
                /\ results[i].total = Len(batch)
          /\ Len(CbEvents) = IF has_cb THEN Len(batch) ELSE 0
    /\ \A k \in DOMAIN CbEvents : CbEvents[k] = <<"cb", k>>
    /\ \A p \in DOMAIN events :
          events[p][1] = "cb" =>
              /\ Before(p, <<"append", events[p][2]>>)
              /\ Len(results) >= events[p][2]
              /\ ~Before(p, <<"fetch", events[p][2] + 1>>)
    /\ \A p \in DOMAIN events :
          has_cb /\ events[p][1] = "fetch" /\ events[p][2] > 1
          => Before(p, <<"cb", events[p][2] - 1>>)

\* a batch of two with a callback has returned; the first fetch failed and the
\* second succeeded
C4_Witness ==
    /\ d_pc = "returned"
    /\ has_cb
    /\ Len(batch) = 2
    /\ ~results[1].success
    /\ results[2].success

InCall == d_pc \in {"get1", "get2", "save", "verify", "ret"}

\* C5: when the target file already exists, download_paper returns
\* (true, path, "Already exists: <filename>"), issues no HTTP request and
\* leaves the file as it was.
C5_ExistingFileShortCircuits ==
    InCall /\ pre # -1 =>
        /\ d_pc = "ret"
        /\ ret = Triple(TRUE, target, MsgExists(target))
        /\ gets = 0
        /\ target \in DOMAIN fs
        /\ fs[target] = pre

\* the call found a file smaller than 1024 bytes under its target name
C5_Witness ==
    /\ d_pc = "ret"
    /\ pre # -1
    /\ pre < MinPdfSize
    /\ CurPaper.pdf_url # NoneStr

\* C6 as stated: an HTML response (content-type with 'text/html', without
\* 'pdf') whose body has no href/src value the code's pattern takes for a PDF
\* link and no citation_pdf_url meta tag makes download_paper fail with "Could
\* not find PDF link in HTML" and write no file, for every pdf_url, also one
\* that ends in ".pdf".
C6_HtmlWithoutLinkFailsForEveryUrl ==
    ( /\ InCall
      /\ resp1.got
      /\ resp1.ctype.html
      /\ ~resp1.ctype.pdf
      /\ resp1.body.meta = "none"
      /\ ~MatchesPdfPattern(resp1.body.href)
      /\ ~MatchesPdfPattern(resp1.body.src) )
    => /\ d_pc = "ret"
       /\ ret = Triple(FALSE, NoneStr, MsgNoLink)
       /\ target \notin DOMAIN fs

\* C6 amended: the same, only for a pdf_url that does not end in ".pdf" (for
\* one that does, line 62 skips the HTML check and the body is streamed to
\* disk); exactly one request is made.
C6_HtmlWithoutLinkFailsUnlessUrlEndsPdf ==
    ( /\ InCall
      /\ resp1.got
      /\ resp1.ctype.html
      /\ ~resp1.ctype.pdf
      /\ ~EndsWithPdf(CurPaper.pdf_url)
      /\ resp1.body.meta = "none"
      /\ ~MatchesPdfPattern(resp1.body.href)
      /\ ~MatchesPdfPattern(resp1.body.src) )
    => /\ d_pc = "ret"
       /\ ret = Triple(FALSE, NoneStr, MsgNoLink)
       /\ target \notin DOMAIN fs
       /\ gets = 1

\* a page URL answered with text/html whose only href is "pdf"
C6_Witness ==
    /\ d_pc = "ret"
    /\ resp1.got
    /\ resp1.ctype = [pdf |-> FALSE, html |-> TRUE]
    /\ ~EndsWithPdf(CurPaper.pdf_url)
    /\ resp1.body = [href |-> <<"pdf">>, src |-> NoneStr, meta |-> "none"]
    /\ ret.message = MsgNoLink

C8_DownloadPaperNeverRaises ==
    /\ d_pc # "dp_raised"
    /\ d_pc \in {"get1", "get2", "save", "verify"} => ENABLED DownloadNext
    /\ d_pc = "ret" =>
          /\ ret.success \in BOOLEAN
          /\ ~ret.success => ret.file_path = NoneStr
          /\ exc = "timeout" => ret = Triple(FALSE, NoneStr, MsgTimeout(CurPaper.title))
          /\ exc = "request" => ret = Triple(FALSE, NoneStr, MsgRequest)
          /\ exc = "other" => ret = Triple(FALSE, NoneStr, MsgUnexpected)
          /\ (exc = "none" /\ ~ret.success) => ret.message \in {MsgNoUrl, MsgNoLink, MsgTooSmall}
          /\ (exc = "none" /\ ret.success) => ret.file_path = target

\* unlink() raised in the size check and the call returned "Unexpected error"
C8_Witness ==
    /\ d_pc = "ret"
    /\ unlink_raised
    /\ exc = "other"
    /\ ret = Triple(FALSE, NoneStr, MsgUnexpected)

\* C9 as stated: no public operation other than download_paper lets an
\* exception reach its caller, whatever the network, the file system and the
\* progress_callback do.
C9_NoPublicOperationRaises ==
    /\ d_pc # "cb_raised"
    /\ st_pc # "raised"

\* ========================================================================
\* Claims checked under SpecStats
\* ========================================================================
\* C10 as stated: get_download_stats returns total_files = 0, total_size_mb =
\* 0.0 and files = [] when the directory holds no PDF file and when the
\* directory does not exist, with the same fields in both cases.
C10_ZeroStatsSameFields ==
    (st_pc = "returned" /\ (~dir_exists \/ pdf_files = <<>>)) =>
        /\ DOMAIN stats = {"total_files", "total_size", "total_size_mb", "files"}
        /\ stats.total_files = 0
        /\ stats.total_size_mb = 0
        /\ stats.files = <<>>

\* ------------------------------------------------------------------------
\* C11
\* ------------------------------------------------------------------------
Positions(e) == {p \in DOMAIN events : events[p] = e}

\* the events item i has to have completed before item i + 1 is fetched
Completed(i, p) ==
    /\ Before(p, <<"fetch", i>>)
    /\ Before(p, <<"append", i>>)
    /\ has_cb => Before(p, <<"cb", i>>)
    /\ Before(p, <<"sleep", i>>)

\* C11: within one download_papers call the fetches are strictly sequential:
\* the fetch of item i + 1 starts only once the fetch of item i has returned,
\* its result is appended and its callback has completed, directly after the
\* one pacing delay of item i; an HTTP request is outstanding only for the item
\* fetched last; every item but the last is followed by exactly one delay, the
\* last by none, so a call that returns has made N - 1 delays for N >= 1 items
\* and none for N = 0.
C11_SequentialFetchesAndPacing ==
    /\ \A p \in DOMAIN events : \A i \in 1..Len(batch) :
          /\ (events[p] = <<"fetch", i>> /\ i > 1) =>
                /\ Completed(i - 1, p)
                /\ events[p - 1] = <<"sleep", i - 1>>
          /\ events[p] = <<"fetch", i>> => Len(results) >= i - 1
    /\ \A i \in 1..Len(batch) :
          /\ Cardinality(Positions(<<"fetch", i>>)) <= 1
          /\ Cardinality(Positions(<<"sleep", i>>)) <= 1
    /\ Positions(<<"sleep", Len(batch)>>) = {}
    /\ d_pc \in {"get1", "get2"} =>
          /\ events[Len(events)] = <<"fetch", cur>>
          /\ Len(results) = cur - 1
    /\ d_pc = "returned" =>
          Cardinality({p \in DOMAIN events : events[p][1] = "sleep"})
              = (IF Len(batch) = 0 THEN 0 ELSE Len(batch) - 1)

\* a call over two papers has returned after one delay between the two fetches
C11_Witness ==
    /\ d_pc = "returned"
    /\ Len(batch) = 2
    /\ has_cb
    /\ \E p \in DOMAIN events :
          /\ events[p] = <<"sleep", 1>>
          /\ events[p + 1] = <<"fetch", 2>>
    /\ batch[1].pdf_url # NoneStr
    /\ batch[2].pdf_url # NoneStr

\* ========================================================================
\* Claims checked under SpecSearch (provider order, caps)
\* ========================================================================
FromSource(ps, src) == {i \in DOMAIN ps : ps[i].source = src}

Failed(provider) ==
    \E k \in DOMAIN invoked : invoked[k].provider = provider /\ invoked[k].failed

OtherProvider(provider) == IF provider = "ArXiv" THEN "Semantic Scholar" ELSE "ArXiv"

\* C12: the providers are invoked in the order ArXiv, Semantic Scholar; a
\* provider whose request (or the parse of its answer) raises contributes no
\* paper, the other provider is invoked all the same, and once the search has
\* returned every paper the other provider contributed is accumulated and is in
\* the result, either itself or as the first paper with its normalized title.
C12_ProviderOrderAndFailureIsolation ==
    /\ Len(invoked) <= 2
    /\ Len(invoked) >= 1 => invoked[1].provider = "ArXiv"
    /\ Len(invoked) = 2 => invoked[2].provider = "Semantic Scholar"
    /\ s_pc \in {"merge", "done"} => Len(invoked) = 2
    /\ \A provider \in {"ArXiv", "Semantic Scholar"} :
          (s_pc \in {"merge", "done"} /\ Failed(provider)) =>
              /\ FromSource(all_papers, provider) = {}
              /\ s_pc = "done" =>
                    /\ FromSource(s_result, provider) = {}
                    /\ Len(s_result) = Len(unique_papers)
                    /\ \A k \in FromSource(all_papers, OtherProvider(provider)) :
                          \E i \in DOMAIN s_result :
                              s_result[i] = all_papers[FirstWithTitle(k)]

\* the ArXiv request failed, Semantic Scholar was invoked after it and its two
\* papers are the result
C12_Witness ==
    /\ s_pc = "done"
    /\ invoked[1].failed
    /\ ~invoked[2].failed
    /\ Len(s_result) = 2
    /\ \A i \in DOMAIN s_result : s_result[i].source = "Semantic Scholar"

\* C15: for a max_papers >= 0, each provider returns at most max_papers // 2
\* papers, so the search returns at most 2 * (max_papers // 2) papers: the
\* truncation to max_papers discards nothing, an odd max_papers is never
\* reached, and with max_papers = 1 the result is empty whatever the providers
\* answer.
C15_ResultBoundedByTwiceProviderCap ==
    /\ s_pc \in {"arxiv_return", "s2_return"} => Len(papers) <= ProviderCap(max_papers)
    /\ s_pc \in {"merge", "done"} => Len(all_papers) <= 2 * ProviderCap(max_papers)
    /\ s_pc = "done" =>
          /\ Len(s_result) <= 2 * ProviderCap(max_papers)
          /\ Len(s_result) = Len(unique_papers)
          /\ s_result = SortByYearDesc(unique_papers)
          /\ max_papers % 2 = 1 => Len(s_result) < max_papers
          /\ max_papers = 1 => s_result = <<>>

\* with max_papers = 3 each provider kept one paper and the result holds two
C15_Witness ==
    /\ s_pc = "done"
    /\ max_papers = 3
    /\ Len(s_result) = 2
    /\ s_result[1].source # s_result[2].source

\* ========================================================================
\* Claims checked under SpecDownload (failed downloads)
\* ========================================================================
\* results of earlier items of the batch that report success for the path name
SucceededEarlier(name) ==
    \E k \in DOMAIN results : results[k].success /\ results[k].file_path = name

\* C14: when download_paper returns success = false for a paper whose target
\* file did not exist before the call, no file exists at the target path,
\* also when the error was raised while the body was streamed to disk; so a
\* later download_paper for the same paper answers "Already exists" only for a
\* file an earlier successful call has left.
C14_FailedDownloadLeavesNoFile ==
    /\ (d_pc = "ret" /\ ~ret.success /\ target # NoneStr /\ pre = -1) =>
          target \notin DOMAIN fs
    /\ (d_pc = "ret" /\ ret.message = MsgExists(target)) => SucceededEarlier(target)

\* ========================================================================
\* Claims checked under SpecRace
\* ========================================================================
\* C13: of two download_paper calls that run at the same time for one file
\* name (file absent beforehand), at most one opens the path for writing;
\* when the call that returns first reports success, the call that returns
\* second returns (true, path, "Already exists: <filename>"); and no call
\* reports success for a path whose file the other call deletes afterwards as
\* too small.
C13_SameFilenameRaceResolvedAsExists ==
    /\ Cardinality(rc_opened) <= 1
    /\ (Len(rc_order) = 2 /\ rc_ret[rc_order[1]].success) =>
          rc_ret[rc_order[2]] = Triple(TRUE, RaceName, MsgExists(RaceName))
    /\ Len(rc_order) = 2 =>
          ~(rc_ret[rc_order[1]].success /\ rc_ret[rc_order[2]].message = MsgTooSmall)

\* ========================================================================
\* Claims checked under SpecApp
\* ========================================================================
\* C16: processing is true in every state in which a worker thread has been
\* started and has not finished; no second worker is started while one is
\* running; and processing is false once every started worker has finished,
\* by return or by exception.
C16_ProcessingCoversRunningWorkers ==
    /\ Active # {} => processing
    /\ Cardinality(Active) <= 1
    /\ Active = {} => ~processing

====
